---------------------------- MODULE Spec2Model ----------------------------
(***************************************************************************)
(* Model of eqs/matrix.py: the Matrix class.                               *)
(*                                                                         *)
(* A Matrix object holds rows_count, cols_count, is_square and __data, a   *)
(* Python list of row lists.  Row lists are objects of a heap, so that two *)
(* matrices sharing a row list (aliasing) is a state the model can be in.  *)
(* Numbers are integers; an index is any integer, resolved the way a       *)
(* Python list resolves it (negative indices count from the end).          *)
(***************************************************************************)
EXTENDS Integers, Sequences, FiniteSets, TLC

VARIABLES
    mats,   \* the Matrix objects created so far, by identity 1..Len(mats)
    heap,   \* the row lists allocated so far, by reference 1..Len(heap)
    made,   \* history: how each Matrix object was made, and from which one
    last,   \* the last call: its name, receiver, outcome and returned value
    steps   \* number of calls made

vars == <<mats, heap, made, last, steps>>

\* ------------------------------------------------------------- bounds
MaxDim == 2      \* a constructed matrix has 0..MaxDim rows and columns
MaxSteps == 2    \* calls made after construction

\* ------------------------------------------------------------- inputs
Dims == 0..MaxDim
\* every kind of index: in range, past the end, negative in Python's
\* range, negative below it
Idx == (0 - MaxDim - 1)..MaxDim
Amounts == {1, 2}
Factors == {-1, 0, 2}
Ramp(n, base) == [k \in 1..n |-> base + k]
\* flat sequences of every length up to one past the largest matrix, with
\* pairwise distinct entries
DataInputs == {Ramp(n, b) : n \in 0..(MaxDim * MaxDim + 1), b \in {0, 4}}
\* vectors of every length up to one past the widest matrix
VectorInputs == {Ramp(n, b) : n \in 0..(MaxDim + 1), b \in {0, 4}}

\* ------------------------------------------------------------- results
Ok(h) == [outcome |-> "ok", heap |-> h]
IndexError(h) == [outcome |-> "IndexError", heap |-> h]
ValueError(h) == [outcome |-> "ValueError", heap |-> h]

\* ------------------------------------------------------------- Python lists
\* list[i]: the 1-based position a Python list of length n resolves index i
\* to, 0 when it raises IndexError
PyIndex(n, i) ==
    IF 0 <= i /\ i < n THEN i + 1
    ELSE IF 0 - n <= i /\ i < 0 THEN n + i + 1
    ELSE 0

\* self.__data[row][col], as a read: <<TRUE, value>> or <<FALSE, 0>>
getitem2(h, m, row, col) ==
    LET r == PyIndex(Len(m.data), row) IN
    IF r = 0 THEN <<FALSE, 0>>
    ELSE LET c == PyIndex(Len(h[m.data[r]]), col) IN
         IF c = 0 THEN <<FALSE, 0>> ELSE <<TRUE, h[m.data[r]][c]>>

\* self.__data[row][col] = value: the outer list is indexed first, then
\* the row list is written
setitem2(h, m, row, col, value) ==
    LET r == PyIndex(Len(m.data), row) IN
    IF r = 0 THEN IndexError(h)
    ELSE LET c == PyIndex(Len(h[m.data[r]]), col) IN
         IF c = 0 THEN IndexError(h)
         ELSE Ok([h EXCEPT ![m.data[r]][c] = value])

\* ------------------------------------------------------------- construction
\* utils.lists.list_of_list_of_zeros: rows fresh row lists of cols zeros
list_of_list_of_zeros(h, rows, cols) ==
    [heap |-> h \o [i \in 1..rows |-> [j \in 1..cols |-> 0]],
     data |-> [i \in 1..rows |-> Len(h) + i]]

\* mutant of Matrix: the row and column counts are passed to
\* list_of_list_of_zeros in the wrong order
Matrix_swapped(ms, h, rows_count, cols_count) ==
    LET z == list_of_list_of_zeros(h, cols_count, rows_count) IN
    [mats |-> Append(ms, [rows_count |-> rows_count,
                          cols_count |-> cols_count,
                          is_square  |-> (rows_count = cols_count),
                          data       |-> z.data]),
     heap |-> z.heap,
     ret  |-> Len(ms) + 1]

\* Matrix.__init__: the new object is appended to ms
Matrix(ms, h, rows_count, cols_count) ==
    LET z == list_of_list_of_zeros(h, rows_count, cols_count) IN
    [mats |-> Append(ms, [rows_count |-> rows_count,
                          cols_count |-> cols_count,
                          is_square  |-> (rows_count = cols_count),
                          data       |-> z.data]),
     heap |-> z.heap,
     ret  |-> Len(ms) + 1]

\* ------------------------------------------------------------- mutators
set_value(h, m, value, row, col) == setitem2(h, m, row, col, value)

add_to_value(h, m, amount, row, col) ==
    LET old == getitem2(h, m, row, col) IN
    IF ~old[1] THEN IndexError(h)
    ELSE setitem2(h, m, row, col, old[2] + amount)

\* the nested loops of set_data from flat position k on:
\* row = k \div cols_count, col = k % cols_count
RECURSIVE set_data_loop(_, _, _, _)
set_data_loop(h, m, data, k) ==
    IF k >= m.rows_count * m.cols_count THEN Ok(h)
    ELSE LET row == k \div m.cols_count
             col == k % m.cols_count
             offset == m.cols_count * row
         IN  IF offset + col + 1 > Len(data) THEN IndexError(h)
             ELSE LET w == setitem2(h, m, row, col, data[offset + col + 1]) IN
                  IF w.outcome # "ok" THEN w
                  ELSE set_data_loop(w.heap, m, data, k + 1)

\* mutant of set_data: the flat list is read column by column
\* (data[col * rows_count + row])
RECURSIVE set_data_column_major_loop(_, _, _, _)
set_data_column_major_loop(h, m, data, k) ==
    IF k >= m.rows_count * m.cols_count THEN Ok(h)
    ELSE LET row == k \div m.cols_count
             col == k % m.cols_count
             w == setitem2(h, m, row, col, data[col * m.rows_count + row + 1])
         IN  IF w.outcome # "ok" THEN w
             ELSE set_data_column_major_loop(w.heap, m, data, k + 1)

set_data_column_major(h, m, data) ==
    IF Len(data) # m.cols_count * m.rows_count THEN ValueError(h)
    ELSE set_data_column_major_loop(h, m, data, 0)

set_data(h, m, data) ==
    IF Len(data) # m.cols_count * m.rows_count THEN ValueError(h)
    ELSE set_data_loop(h, m, data, 0)

RECURSIVE set_identity_row_loop(_, _, _, _)
set_identity_row_loop(h, m, row, col) ==
    IF col >= m.cols_count THEN Ok(h)
    ELSE LET w == setitem2(h, m, row, col, IF row = col THEN 1 ELSE 0) IN
         IF w.outcome # "ok" THEN w
         ELSE set_identity_row_loop(w.heap, m, row, col + 1)

\* mutant of set_identity_row: the two branches of the conditional swapped
\* (0 if row == col else 1)
RECURSIVE set_identity_row_inverted_loop(_, _, _, _)
set_identity_row_inverted_loop(h, m, row, col) ==
    IF col >= m.cols_count THEN Ok(h)
    ELSE LET w == setitem2(h, m, row, col, IF row = col THEN 0 ELSE 1) IN
         IF w.outcome # "ok" THEN w
         ELSE set_identity_row_inverted_loop(w.heap, m, row, col + 1)

set_identity_row_inverted(h, m, row) ==
    set_identity_row_inverted_loop(h, m, row, 0)

set_identity_row(h, m, row) == set_identity_row_loop(h, m, row, 0)

RECURSIVE set_identity_col_loop(_, _, _, _)
set_identity_col_loop(h, m, col, row) ==
    IF row >= m.rows_count THEN Ok(h)
    ELSE LET w == setitem2(h, m, row, col, IF row = col THEN 1 ELSE 0) IN
         IF w.outcome # "ok" THEN w
         ELSE set_identity_col_loop(w.heap, m, col, row + 1)

set_identity_col(h, m, col) == set_identity_col_loop(h, m, col, 0)

RECURSIVE scale_loop(_, _, _, _)
scale_loop(h, m, factor, k) ==
    IF k >= m.rows_count * m.cols_count THEN Ok(h)
    ELSE LET i == k \div m.cols_count
             j == k % m.cols_count
             old == getitem2(h, m, i, j)
         IN  IF ~old[1] THEN IndexError(h)
             ELSE LET w == setitem2(h, m, i, j, old[2] * factor) IN
                  IF w.outcome # "ok" THEN w
                  ELSE scale_loop(w.heap, m, factor, k + 1)

scale(h, m, factor) == scale_loop(h, m, factor, 0)

\* ------------------------------------------------------------- reads
Value(v) == [outcome |-> "ok", ret |-> v]
Raised(kind) == [outcome |-> kind, ret |-> <<>>]

value_at(h, m, row, col) ==
    LET x == getitem2(h, m, row, col) IN
    IF x[1] THEN Value(<<x[2]>>) ELSE Raised("IndexError")

\* mutant of value_transposed_at: the indices are not swapped
value_transposed_at_unswapped(h, m, row, col) ==
    LET x == getitem2(h, m, row, col) IN
    IF x[1] THEN Value(<<x[2]>>) ELSE Raised("IndexError")

value_transposed_at(h, m, row, col) ==
    LET x == getitem2(h, m, col, row) IN
    IF x[1] THEN Value(<<x[2]>>) ELSE Raised("IndexError")

\* ------------------------------------------------------------- Vector
\* eqs.Vector, used by times_vector: a list of numbers with a length, an
\* indexed getter and an indexed setter; Vector(n) is n zeros
Vector(length) == [i \in 1..length |-> 0]
Vector_length(v) == Len(v)
Vector_value_at(v, i) == v[i + 1]
Vector_set_value(v, value, i) == [v EXCEPT ![i + 1] = value]

\* product_sum of row i from column j on, added to acc
RECURSIVE product_sum(_, _, _, _, _, _)
product_sum(h, m, v, i, j, acc) ==
    IF j >= m.cols_count THEN acc
    ELSE product_sum(h, m, v, i, j + 1,
                     acc + getitem2(h, m, i, j)[2] * Vector_value_at(v, j))

RECURSIVE times_vector_loop(_, _, _, _, _)
times_vector_loop(h, m, v, i, result) ==
    IF i >= m.rows_count THEN result
    ELSE times_vector_loop(h, m, v, i + 1,
             Vector_set_value(result, product_sum(h, m, v, i, 0, 0), i))

\* mutant of times_vector: product_sum is not reset to 0 for each row
RECURSIVE times_vector_running_sum_loop(_, _, _, _, _, _)
times_vector_running_sum_loop(h, m, v, i, acc, result) ==
    IF i >= m.rows_count THEN result
    ELSE LET sum == product_sum(h, m, v, i, 0, acc) IN
         times_vector_running_sum_loop(h, m, v, i + 1, sum,
                                       Vector_set_value(result, sum, i))

times_vector_running_sum(h, m, v) ==
    IF m.cols_count # Vector_length(v) THEN Raised("ValueError")
    ELSE Value(times_vector_running_sum_loop(h, m, v, 0, 0,
                                             Vector(m.rows_count)))

times_vector(h, m, v) ==
    IF m.cols_count # Vector_length(v) THEN Raised("ValueError")
    ELSE Value(times_vector_loop(h, m, v, 0, Vector(m.rows_count)))

\* ------------------------------------------------------------- copy, +
Made(ms, h, id) == [outcome |-> "ok", mats |-> ms, heap |-> h, ret |-> <<id>>]
NotMade(kind, ms, h) == [outcome |-> kind, mats |-> ms, heap |-> h, ret |-> <<>>]

\* matrix.__data[i][j] = self.__data[i][j] from flat position k on
RECURSIVE copy_loop(_, _, _, _)
copy_loop(h, self, matrix, k) ==
    IF k >= self.rows_count * self.cols_count THEN h
    ELSE LET i == k \div self.cols_count
             j == k % self.cols_count
         IN  copy_loop(setitem2(h, matrix, i, j, getitem2(h, self, i, j)[2]).heap,
                       self, matrix, k + 1)

\* mutant of copy: the new object is given the row lists of self
\* (matrix.__data = self.__data)
copy_aliased(ms, h, a) == Made(Append(ms, ms[a]), h, Len(ms) + 1)

copy(ms, h, a) ==
    LET self == ms[a]
        new == Matrix(ms, h, self.rows_count, self.cols_count)
    IN  Made(new.mats, copy_loop(new.heap, self, new.mats[new.ret], 0), new.ret)

\* result.__data[i][j] += other.__data[i][j] from flat position k on
RECURSIVE add_loop(_, _, _, _)
add_loop(h, result, other, k) ==
    IF k >= result.rows_count * result.cols_count THEN h
    ELSE LET i == k \div result.cols_count
             j == k % result.cols_count
         IN  add_loop(setitem2(h, result, i, j,
                               getitem2(h, result, i, j)[2]
                                   + getitem2(h, other, i, j)[2]).heap,
                      result, other, k + 1)

\* mutant of add_result: the sum is accumulated in self (result = self)
add_result_in_place(ms, h, a) == Made(ms, h, a)

\* the matrix __add__ starts from: a new copy of self
add_result(ms, h, a) == copy(ms, h, a)

__add__(ms, h, a, b) ==
    IF ms[a].rows_count # ms[b].rows_count THEN NotMade("ValueError", ms, h)
    ELSE IF ms[a].cols_count # ms[b].cols_count THEN NotMade("ValueError", ms, h)
    ELSE LET c == add_result(ms, h, a) IN
         Made(c.mats, add_loop(c.heap, c.mats[c.ret[1]], c.mats[b], 0), c.ret[1])

\* ------------------------------------------------------------- equality
\* geom2d.are_close_enough: numbers are counted in units of half the
\* tolerance, so that two numbers one unit apart are close and two units
\* apart are not
Tolerance == 2
Abs(x) == IF x < 0 THEN 0 - x ELSE x
are_close_enough(x, y) == Abs(x - y) < Tolerance

\* a value that is not a Matrix, as the right operand of ==
NotAMatrix == 0
isinstance_Matrix(ms, other) == other \in 1..Len(ms)

\* mutant of eq_loop: the elements are compared with ==
RECURSIVE eq_loop_exact(_, _, _, _)
eq_loop_exact(h, self, other, k) ==
    IF k >= self.rows_count * self.cols_count THEN TRUE
    ELSE LET i == k \div self.cols_count
             j == k % self.cols_count
         IN  IF getitem2(h, self, i, j)[2] # getitem2(h, other, i, j)[2]
             THEN FALSE
             ELSE eq_loop_exact(h, self, other, k + 1)

RECURSIVE eq_loop(_, _, _, _)
eq_loop(h, self, other, k) ==
    IF k >= self.rows_count * self.cols_count THEN TRUE
    ELSE LET i == k \div self.cols_count
             j == k % self.cols_count
         IN  IF ~are_close_enough(getitem2(h, self, i, j)[2],
                                  getitem2(h, other, i, j)[2])
             THEN FALSE
             ELSE eq_loop(h, self, other, k + 1)

__eq__(ms, h, a, other) ==
    IF a = other THEN TRUE
    ELSE IF ~isinstance_Matrix(ms, other) THEN FALSE
    ELSE IF ms[a].rows_count # ms[other].rows_count THEN FALSE
    ELSE IF ms[a].cols_count # ms[other].cols_count THEN FALSE
    ELSE eq_loop(h, ms[a], ms[other], 0)

\* ------------------------------------------------------------- calls
Ids == 1..Len(mats)
Rows(m) == 0..(m.rows_count - 1)
Cols(m) == 0..(m.cols_count - 1)
InRange(m, row, col) == row \in Rows(m) /\ col \in Cols(m)

\* args: the arguments of the call, left out (<<>>) for the calls that take
\* the indices of one element or a flat list of elements; inrange: whether every index passed was in
\* [0, rows_count), respectively [0, cols_count)
Call(op, id, args, inrange, outcome, ret) ==
    [op |-> op, target |-> id, args |-> args, inrange |-> inrange,
     outcome |-> outcome, ret |-> ret]

\* a mutator returns self
Mutated(op, id, args, inrange, w) ==
    /\ heap' = w.heap
    /\ last' = Call(op, id, args, inrange, w.outcome,
                    IF w.outcome = "ok" THEN <<id>> ELSE <<>>)
    /\ steps' = steps + 1
    /\ UNCHANGED <<mats, made>>

Read(op, id, args, inrange, x) ==
    /\ last' = Call(op, id, args, inrange, x.outcome, x.ret)
    /\ steps' = steps + 1
    /\ UNCHANGED <<mats, heap, made>>

Allocated(op, id, args, n) ==
    /\ mats' = n.mats
    /\ heap' = n.heap
    /\ made' = IF n.outcome = "ok" THEN Append(made, [op |-> op, of |-> id])
               ELSE made
    /\ last' = Call(op, id, args, TRUE, n.outcome, n.ret)
    /\ steps' = steps + 1

\* the mutators, with indices drawn from I and numbers from A
SetValue(I, A) ==
    /\ steps < MaxSteps
    /\ \E id \in Ids, value \in A, row \in I, col \in I :
          Mutated("set_value", id, <<>>, InRange(mats[id], row, col),
                  set_value(heap, mats[id], value, row, col))

AddToValue(I, A) ==
    /\ steps < MaxSteps
    /\ \E id \in Ids, amount \in A, row \in I, col \in I :
          Mutated("add_to_value", id, <<>>, InRange(mats[id], row, col),
                  add_to_value(heap, mats[id], amount, row, col))

SetData ==
    /\ steps < MaxSteps
    /\ \E id \in Ids, data \in DataInputs :
          Mutated("set_data", id, <<>>, TRUE, set_data(heap, mats[id], data))

SetIdentityRow(I) ==
    /\ steps < MaxSteps
    /\ \E id \in Ids, row \in I :
          Mutated("set_identity_row", id, <<row>>, row \in Rows(mats[id]),
                  set_identity_row(heap, mats[id], row))

SetIdentityCol(I) ==
    /\ steps < MaxSteps
    /\ \E id \in Ids, col \in I :
          Mutated("set_identity_col", id, <<col>>, col \in Cols(mats[id]),
                  set_identity_col(heap, mats[id], col))

Scale ==
    /\ steps < MaxSteps
    /\ \E id \in Ids, factor \in Factors :
          Mutated("scale", id, <<factor>>, TRUE, scale(heap, mats[id], factor))

ValueAt ==
    /\ steps < MaxSteps
    /\ \E id \in Ids, row \in Idx, col \in Idx :
          Read("value_at", id, <<>>, InRange(mats[id], row, col),
               value_at(heap, mats[id], row, col))

ValueTransposedAt ==
    /\ steps < MaxSteps
    /\ \E id \in Ids, row \in Idx, col \in Idx :
          Read("value_transposed_at", id, <<>>, InRange(mats[id], col, row),
               value_transposed_at(heap, mats[id], row, col))

TimesVector ==
    /\ steps < MaxSteps
    /\ \E id \in Ids, v \in VectorInputs :
          Read("times_vector", id, v, TRUE, times_vector(heap, mats[id], v))

\* a further Matrix(rows, cols), constructed before any other call is made:
\* construction reads nothing of the existing objects, so constructing it
\* later gives the same objects
New ==
    /\ steps = 0
    /\ steps < MaxSteps
    /\ \E rows \in Dims, cols \in Dims :
          LET n == Matrix(mats, heap, rows, cols) IN
          Allocated("Matrix", n.ret, <<rows, cols>>,
                    Made(n.mats, n.heap, n.ret))

Copy ==
    /\ steps < MaxSteps
    /\ \E id \in Ids : Allocated("copy", id, <<>>, copy(mats, heap, id))

Add ==
    /\ steps < MaxSteps
    /\ \E a \in Ids, b \in Ids :
          Allocated("__add__", a, <<b>>, __add__(mats, heap, a, b))

Eq ==
    /\ steps < MaxSteps
    /\ \E a \in Ids, other \in Ids \cup {NotAMatrix} :
          Read("__eq__", a, <<other>>, TRUE,
               Value(IF __eq__(mats, heap, a, other) THEN <<1>> ELSE <<0>>))

Mutators == {"set_value", "add_to_value", "set_data", "set_identity_row",
             "set_identity_col", "scale"}

\* the state after Matrix(rows, cols)
Init ==
    \E rows \in Dims, cols \in Dims :
        LET n == Matrix(<<>>, <<>>, rows, cols) IN
        /\ mats = n.mats
        /\ heap = n.heap
        /\ made = <<[op |-> "Matrix", of |-> n.ret]>>
        /\ last = Call("Matrix", n.ret, <<rows, cols>>, TRUE, "ok", <<n.ret>>)
        /\ steps = 0

\* ------------------------------------------------------------- one matrix
\* every method of one matrix, called with every kind of index
Next ==
    \/ SetValue(Idx, Amounts)
    \/ AddToValue(Idx, Amounts)
    \/ SetData
    \/ SetIdentityRow(Idx)
    \/ SetIdentityCol(Idx)
    \/ Scale
    \/ ValueAt
    \/ ValueTransposedAt
    \/ TimesVector

Spec == Init /\ [][Next]_vars

\* ------------------------------------------------------------- several matrices
\* matrices made from one another and mutated, with indices from 0 on;
\* an element is set to Tolerance, which is not close to 0, or moved by 1,
\* which leaves it close to what it was
NextObj ==
    \/ New
    \/ SetValue(Dims, {Tolerance})
    \/ AddToValue(Dims, {1})
    \/ SetData
    \/ SetIdentityRow(Dims)
    \/ SetIdentityCol(Dims)
    \/ Scale
    \/ Copy
    \/ Add
    \/ Eq

SpecObj == Init /\ [][NextObj]_vars

\* ------------------------------------------------------------- operands of +
\* the calls that make the operands of +: matrices of every shape, filled,
\* scaled, moved by 1 and copied
NextAdd ==
    \/ New
    \/ SetData
    \/ AddToValue(Dims, {1})
    \/ Scale
    \/ Copy
    \/ Add

SpecAdd == Init /\ [][NextAdd]_vars

\* ------------------------------------------------------------- vocabulary
\* the elements of m, row by row, as stored
Elements(h, m) == [i \in 1..Len(m.data) |-> h[m.data[i]]]
RowRefs(m) == {m.data[i] : i \in 1..Len(m.data)}
At(h, m, row, col) == value_at(h, m, row, col)

\* ------------------------------------------------------------- C1
\* C1: value_at, set_value and add_to_value fail with an out-of-range error
\* whenever row is not in [0, rows_count) or col is not in [0, cols_count),
\* returning no value and writing no element.
C1_OutOfRangeFails ==
    [][(/\ last'.op \in {"value_at", "set_value", "add_to_value"}
        /\ ~last'.inrange)
       => /\ last'.outcome = "IndexError"
          /\ last'.ret = <<>>
          /\ heap' = heap]_vars

\* ------------------------------------------------------------- C2
\* C2: for every shape, a zero dimension included, set_identity_row(row)
\* fails with an out-of-range error whenever row is not in [0, rows_count),
\* and set_identity_col(col) whenever col is not in [0, cols_count).
C2_IdentityOutOfRangeFails ==
    (/\ last.op \in {"set_identity_row", "set_identity_col"}
     /\ ~last.inrange)
    => last.outcome = "IndexError"

\* ------------------------------------------------------------- C3
\* C3: after any sequence of mutations value_transposed_at(i, j) returns
\* what value_at(j, i) returns, and fails exactly when value_at(j, i) fails.
C3_TransposedRead ==
    \A id \in Ids, i \in Idx, j \in Idx :
        value_transposed_at(heap, mats[id], i, j) = value_at(heap, mats[id], j, i)

\* a mutated matrix that is not symmetric: reading (1, 0) transposed gives
\* the element at (0, 1), which differs from the one at (1, 0)
C3_Witness ==
    /\ last.op \in Mutators
    /\ last.outcome = "ok"
    /\ LET m == mats[last.target] IN
       /\ value_at(heap, m, 0, 1).outcome = "ok"
       /\ value_at(heap, m, 1, 0).outcome = "ok"
       /\ value_at(heap, m, 0, 1) # value_at(heap, m, 1, 0)
       /\ value_transposed_at(heap, m, 1, 0) = value_at(heap, m, 0, 1)

\* ------------------------------------------------------------- C4
StoreShaped(h, m) ==
    /\ Len(m.data) = m.rows_count
    /\ \A i \in 1..Len(m.data) : Len(h[m.data[i]]) = m.cols_count

\* C4: through every call, successful or failed, each matrix keeps its
\* rows_count and cols_count and its store has exactly rows_count rows of
\* exactly cols_count values.
C4_ShapeImmutable ==
    [][/\ \A id \in Ids : StoreShaped(heap, mats[id])
       /\ \A id \in 1..Len(mats') : StoreShaped(heap', mats'[id])
       /\ \A id \in Ids :
             /\ mats'[id].rows_count = mats[id].rows_count
             /\ mats'[id].cols_count = mats[id].cols_count]_vars

\* a failed set_data on a matrix that is not square, after another call
C4_Witness ==
    /\ last.op = "set_data"
    /\ last.outcome = "ValueError"
    /\ steps = 2
    /\ mats[last.target].rows_count # mats[last.target].cols_count
    /\ mats[last.target].rows_count * mats[last.target].cols_count > 0

\* ------------------------------------------------------------- C5
\* C5: set_data(values) with len(values) = rows_count * cols_count leaves
\* value_at(r, c) = values[r * cols_count + c] for every valid (r, c); with
\* any other length it fails with a size mismatch (and writes nothing).
C5_SetDataRowMajor ==
    \A id \in Ids, data \in DataInputs :
        LET m == mats[id]
            w == set_data(heap, m, data)
        IN  IF Len(data) = m.rows_count * m.cols_count
            THEN /\ w.outcome = "ok"
                 /\ \A r \in Rows(m), c \in Cols(m) :
                       value_at(w.heap, m, r, c)
                           = Value(<<data[r * m.cols_count + c + 1]>>)
            ELSE w = ValueError(heap)

\* set_data has filled a matrix of at least two rows and two columns
C5_Witness ==
    /\ last.op = "set_data"
    /\ last.outcome = "ok"
    /\ LET m == mats[last.target] IN
       /\ m.rows_count >= 2
       /\ m.cols_count >= 2
       /\ value_at(heap, m, 0, 1) = Value(<<2>>)
       /\ value_at(heap, m, 1, 0) = Value(<<m.cols_count + 1>>)

\* ------------------------------------------------------------- C6
\* every row but r, respectively every column but c, is as it was
OtherRowsKept(h, h2, m, r) ==
    \A r2 \in Rows(m) \ {r}, c \in Cols(m) : At(h2, m, r2, c) = At(h, m, r2, c)
OtherColsKept(h, h2, m, c) ==
    \A c2 \in Cols(m) \ {c}, r \in Rows(m) : At(h2, m, r, c2) = At(h, m, r, c2)

\* C6 as stated: for every shape and every valid row index r,
\* set_identity_row(r) produces value_at(r, r) = 1 and value_at(r, c) = 0
\* for all c # r, other rows unchanged; set_identity_col(c) is the dual.
C6_IdentityAsStated ==
    [][LET m == mats[last'.target]
           k == last'.args[1]
       IN  /\ (last'.op = "set_identity_row" /\ last'.inrange) =>
                 /\ last'.outcome = "ok"
                 /\ At(heap', m, k, k) = Value(<<1>>)
                 /\ \A c \in Cols(m) \ {k} : At(heap', m, k, c) = Value(<<0>>)
                 /\ OtherRowsKept(heap, heap', m, k)
           /\ (last'.op = "set_identity_col" /\ last'.inrange) =>
                 /\ last'.outcome = "ok"
                 /\ At(heap', m, k, k) = Value(<<1>>)
                 /\ \A r \in Rows(m) \ {k} : At(heap', m, r, k) = Value(<<0>>)
                 /\ OtherColsKept(heap, heap', m, k)]_vars

\* C6, amended: for every valid row index r, set_identity_row(r) produces
\* value_at(r, c) = 0 for all valid c # r and value_at(r, r) = 1 when r is
\* also a valid column index (the row is all zeros when r >= cols_count),
\* other rows unchanged; set_identity_col(c) is the dual.
C6_Identity ==
    \A id \in Ids :
        LET m == mats[id] IN
        /\ \A r \in Rows(m) :
              LET w == set_identity_row(heap, m, r) IN
              /\ w.outcome = "ok"
              /\ \A c \in Cols(m) :
                    At(w.heap, m, r, c) = Value(<<IF c = r THEN 1 ELSE 0>>)
              /\ OtherRowsKept(heap, w.heap, m, r)
        /\ \A c \in Cols(m) :
              LET w == set_identity_col(heap, m, c) IN
              /\ w.outcome = "ok"
              /\ \A r \in Rows(m) :
                    At(w.heap, m, r, c) = Value(<<IF r = c THEN 1 ELSE 0>>)
              /\ OtherColsKept(heap, w.heap, m, c)

\* set_identity_row(r) on a filled matrix with r a valid row index that is
\* no column index: row r is all zeros, the row above it is as it was
C6_Witness ==
    /\ last.op = "set_identity_row"
    /\ last.outcome = "ok"
    /\ LET m == mats[last.target]
           r == last.args[1]
       IN  /\ r \in Rows(m)
           /\ r \notin Cols(m)
           /\ m.cols_count >= 1
           /\ \A c \in Cols(m) : At(heap, m, r, c) = Value(<<0>>)
           /\ At(heap, m, 0, 0) = Value(<<5>>)

\* ------------------------------------------------------------- C9
\* the sum over the columns in S of value_at(i, j) * v[j]
RECURSIVE DotOver(_, _, _, _, _)
DotOver(h, m, v, i, S) ==
    IF S = {} THEN 0
    ELSE LET j == CHOOSE x \in S : TRUE IN
         At(h, m, i, j).ret[1] * v[j + 1] + DotOver(h, m, v, i, S \ {j})

C9_Product ==
    \A id \in Ids, v \in VectorInputs :
        LET m == mats[id]
            x == times_vector(heap, m, v)
        IN  IF Len(v) = m.cols_count
            THEN /\ x.outcome = "ok"
                 /\ Len(x.ret) = m.rows_count
                 /\ \A i \in Rows(m) : x.ret[i + 1] = DotOver(heap, m, v, i, Cols(m))
            ELSE x = Raised("ValueError")

\* C9: times_vector(v) with v.length = cols_count returns a new Vector of
\* length rows_count whose element i is the sum over j of
\* value_at(i, j) * v[j], and leaves the matrix unchanged; with any other
\* length it fails with a size mismatch.
C9_TimesVector ==
    /\ []C9_Product
    /\ [][last'.op = "times_vector" => (mats' = mats /\ heap' = heap)]_vars

\* [[1, 2], [3, 4]] times [5, 6] is [17, 39]
C9_Witness ==
    /\ last.op = "times_vector"
    /\ last.outcome = "ok"
    /\ Elements(heap, mats[last.target]) = <<<<1, 2>>, <<3, 4>>>>
    /\ last.args = <<5, 6>>
    /\ last.ret = <<17, 39>>

\* ------------------------------------------------------------- C7
\* what copy() returns in this state, for every matrix: a further object of
\* the same shape and elements, no row list of which belongs to an
\* existing matrix, every existing matrix being left as it is
C7_CopyMade ==
    \A id \in Ids :
        LET n == copy(mats, heap, id)
            new == n.ret[1]
        IN  /\ n.outcome = "ok"
            /\ new \notin Ids
            /\ n.mats[new].rows_count = mats[id].rows_count
            /\ n.mats[new].cols_count = mats[id].cols_count
            /\ Elements(n.heap, n.mats[new]) = Elements(heap, mats[id])
            /\ \A old \in Ids :
                  /\ n.mats[old] = mats[old]
                  /\ Elements(n.heap, mats[old]) = Elements(heap, mats[old])
                  /\ RowRefs(n.mats[new]) \cap RowRefs(mats[old]) = {}

\* a mutator called on a copy leaves the matrix it was copied from as it
\* was, and one called on that matrix leaves the copy as it was
C7_MutationsApart ==
    \A cp \in Ids :
        made[cp].op = "copy" =>
            LET src == made[cp].of IN
            /\ (last'.op \in Mutators /\ last'.target = cp) =>
                  Elements(heap', mats'[src]) = Elements(heap, mats[src])
            /\ (last'.op \in Mutators /\ last'.target = src) =>
                  Elements(heap', mats'[cp]) = Elements(heap, mats[cp])

\* C7: copy() returns a new matrix with the shape and the elements of the
\* source and storage of its own: mutations of the copy leave the source's
\* elements unchanged, and mutations of the source leave the copy's.
C7_CopyIndependent ==
    /\ []C7_CopyMade
    /\ [][C7_MutationsApart]_vars

\* a copy that has been mutated and now differs from its source
C7_Witness ==
    /\ last.op \in Mutators
    /\ last.outcome = "ok"
    /\ made[last.target].op = "copy"
    /\ Elements(heap, mats[last.target])
           # Elements(heap, mats[made[last.target].of])

\* ------------------------------------------------------------- C8
\* C8: for a and b of the same shape, a being b included, a + b returns a
\* new matrix of that shape whose element (i, j) is a(i, j) + b(i, j) and
\* leaves every element of a and of b unchanged; when rows_count differ or
\* cols_count differ it fails with a size mismatch.
C8_Addition ==
    \A a \in Ids, b \in Ids :
        LET n == __add__(mats, heap, a, b) IN
        IF mats[a].rows_count = mats[b].rows_count
           /\ mats[a].cols_count = mats[b].cols_count
        THEN LET new == n.ret[1] IN
             /\ n.outcome = "ok"
             /\ new \notin Ids
             /\ n.mats[new].rows_count = mats[a].rows_count
             /\ n.mats[new].cols_count = mats[a].cols_count
             /\ StoreShaped(n.heap, n.mats[new])
             /\ \A i \in Rows(mats[a]), j \in Cols(mats[a]) :
                   At(n.heap, n.mats[new], i, j)
                       = Value(<<At(heap, mats[a], i, j).ret[1]
                                   + At(heap, mats[b], i, j).ret[1]>>)
             /\ \A old \in Ids :
                   /\ n.mats[old] = mats[old]
                   /\ Elements(n.heap, mats[old]) = Elements(heap, mats[old])
        ELSE n = NotMade("ValueError", mats, heap)

\* a matrix with a non-zero element has been added to itself
C8_Witness ==
    /\ last.op = "__add__"
    /\ last.outcome = "ok"
    /\ last.args = <<last.target>>
    /\ LET a == mats[last.target]
           sum == mats[last.ret[1]]
       IN  /\ At(heap, a, 0, 0).outcome = "ok"
           /\ At(heap, a, 0, 0) # Value(<<0>>)
           /\ At(heap, sum, 0, 0) = Value(<<2 * At(heap, a, 0, 0).ret[1]>>)

\* ------------------------------------------------------------- C10
SameShape(a, b) ==
    /\ mats[a].rows_count = mats[b].rows_count
    /\ mats[a].cols_count = mats[b].cols_count

AllClose(a, b) ==
    \A i \in Rows(mats[a]), j \in Cols(mats[a]) :
        are_close_enough(At(heap, mats[a], i, j).ret[1],
                         At(heap, mats[b], i, j).ret[1])

\* C10: == is reflexive, symmetric, true of two distinct matrices exactly
\* when their rows_count and cols_count are the same and every pair of
\* corresponding elements is close enough, and false when the other value
\* is not a Matrix.
C10_Equality ==
    /\ \A a \in Ids : __eq__(mats, heap, a, a)
    /\ \A a \in Ids, b \in Ids :
          __eq__(mats, heap, a, b) = __eq__(mats, heap, b, a)
    /\ \A a \in Ids : \A b \in Ids \ {a} :
          __eq__(mats, heap, a, b) = (SameShape(a, b) /\ AllClose(a, b))
    /\ \A a \in Ids : ~__eq__(mats, heap, a, NotAMatrix)

\* == has been called on two distinct matrices and returned True
C10_Witness ==
    /\ last.op = "__eq__"
    /\ last.args[1] \in Ids \ {last.target}
    /\ last.ret = <<1>>
    /\ mats[last.target].rows_count * mats[last.target].cols_count > 0

=============================================================================
